---------------------------- MODULE Spec2Model ----------------------------
(***************************************************************************)
(* A model of azely's query-resolve-and-cache core: a query string is      *)
(* parsed, get_object / get_location choose a resolution strategy, and the *)
(* @cache decorator reads the source TOML file, computes on a miss or a    *)
(* forced update, and writes the document back.                            *)
(*                                                                         *)
(* Strings are sequences of one-character strings, so that parsing and     *)
(* lower-casing are computed character by character.                       *)
(***************************************************************************)
EXTENDS Integers, Sequences, FiniteSets, TLC

VARIABLES
    fs,     \* the file system: path -> [exists, valid, doc]
    hist,   \* the calls made so far, oldest first, each with what it did
    run,    \* the calls under way, step by step: process -> where it is
    azely   \* the globals of the package: DATE, the with-blocks of set_date
            \* that are open (innermost last), and the locations instance

vars == <<fs, hist, run, azely>>

\* The processes that can have a call under way, and none under way.
Procs == {"p", "q"}

\* A call under way: where it is (pc), its query and update arguments, the
\* calls that had ended when it began (after), the document as it was
\* loaded (read) and as the with-block holds it (doc), how often func ran,
\* and what the call returns or raises.
Idle == [pc |-> "idle", query |-> << >>, update |-> FALSE, after |-> {},
         read |-> {}, doc |-> {}, ncompute |-> 0, ret |-> {}, exc |-> ""]

NoRun == [p \in Procs |-> Idle]

\* The number of resolution calls in one run.
MaxCalls == 2

-----------------------------------------------------------------------------
(* Strings                                                                 *)

Sun    == <<"S", "u", "n">>
sun    == <<"s", "u", "n">>
moon   == <<"m", "o", "o", "n">>
M87    == <<"M", "8", "7">>
M31    == <<"M", "3", "1">>
Tokyo  == <<"T", "o", "k", "y", "o">>
Here   == <<"H", "e", "r", "e">>
Blank  == <<" ">>
Bang   == <<"!">>
Colon  == <<":">>
Empty  == << >>
User   == <<"u">>

\* str.lower(), per character, on the letters the model uses.
LowerChar(c) ==
    CASE c = "S" -> "s"
      [] c = "H" -> "h"
      [] c = "M" -> "m"
      [] c = "T" -> "t"
      [] OTHER   -> c

Lower(s) == [i \in 1..Len(s) |-> LowerChar(s[i])]

IsSpace(c) == c = " "

RECURSIVE LStrip(_)
LStrip(s) == IF s # << >> /\ IsSpace(Head(s)) THEN LStrip(Tail(s)) ELSE s

RECURSIVE RStrip(_)
RStrip(s) ==
    IF s # << >> /\ IsSpace(s[Len(s)]) THEN RStrip(SubSeq(s, 1, Len(s) - 1)) ELSE s

\* A slip: every blank is removed, those inside the string too.
Trim_Inner(s) == SelectSeq(s, LAMBDA c : ~IsSpace(c))

Trim(s) == RStrip(LStrip(s))

-----------------------------------------------------------------------------
(* Query parsing: ^\s*((.+):)?([^!]+)(!)?\s*$                              *)

\* One way the expression can match s: i leading blanks, then (g) a source
\* of j characters and a colon, then a key of m characters none of which is
\* "!", then (b) a "!", then blanks up to the end.
\* A slip: the "!" that was matched is not kept.
Matching_NoBang(i, g, j, m, b) == [i |-> i, g |-> g, j |-> j, m |-> m, b |-> FALSE]

Matching(i, g, j, m, b) == [i |-> i, g |-> g, j |-> j, m |-> m, b |-> b]

\* A slip: [^!]* for [^!]+, a key of no character at all.
KeyMatchings_EmptyKey(s, i, g, j, ks) ==
    LET n == Len(s) IN
    { Matching(i, g, j, mb[1], mb[2]) :
        mb \in { x \in (0..n) \X BOOLEAN :
                   LET ke   == ks + x[1] - 1
                       rest == IF x[2] THEN ke + 2 ELSE ke + 1
                   IN  /\ ke <= n
                       /\ \A y \in ks..ke : s[y] # "!"
                       /\ (x[2] => (ke + 1 <= n /\ s[ke + 1] = "!"))
                       /\ \A y \in rest..n : IsSpace(s[y]) } }

\* The keys that can start at ks: m characters without "!", an optional "!"
\* and nothing but blanks after it.
KeyMatchings(s, i, g, j, ks) ==
    LET n == Len(s) IN
    { Matching(i, g, j, mb[1], mb[2]) :
        mb \in { x \in (1..n) \X BOOLEAN :
                   LET ke   == ks + x[1] - 1
                       rest == IF x[2] THEN ke + 2 ELSE ke + 1
                   IN  /\ ke <= n
                       /\ \A y \in ks..ke : s[y] # "!"
                       /\ (x[2] => (ke + 1 <= n /\ s[ke + 1] = "!"))
                       /\ \A y \in rest..n : IsSpace(s[y]) } }

Matchings(s) ==
    LET n == Len(s) IN
    UNION { KeyMatchings(s, i, FALSE, 0, i + 1)
            \cup UNION { KeyMatchings(s, i, TRUE, j, i + j + 2) :
                           j \in { y \in 1..n : i + y + 1 <= n /\ s[i + y + 1] = ":" } } :
            i \in { x \in 0..n : \A y \in 1..x : IsSpace(s[y]) } }

\* The order in which a backtracking matcher tries them: every quantifier is
\* greedy and an optional group is tried present before absent.
Rank_AbsentFirst(s, t) ==
    LET n == Len(s) IN
    ((((t.i * 2 + (IF t.g THEN 0 ELSE 1)) * (n + 1) + t.j) * (n + 1) + t.m) * 2)
        + (IF t.b THEN 1 ELSE 0)

Rank(s, t) ==
    LET n == Len(s) IN
    ((((t.i * 2 + (IF t.g THEN 1 ELSE 0)) * (n + 1) + t.j) * (n + 1) + t.m) * 2)
        + (IF t.b THEN 1 ELSE 0)

FirstMatch(s) ==
    LET M == Matchings(s) IN
    CHOOSE t \in M : \A u \in M : Rank(s, t) >= Rank(s, u)

\* parse(string): [ok, query, source, update]; source << >> stands for None
\* (group 2 is never empty when it takes part in the match).
parse(s) ==
    IF Matchings(s) = {}
    THEN [ok |-> FALSE, query |-> Empty, source |-> Empty, update |-> FALSE]
    ELSE LET t  == FirstMatch(s)
             ks == IF t.g THEN t.i + t.j + 2 ELSE t.i + 1
         IN  [ok     |-> TRUE,
              query  |-> Trim(SubSeq(s, ks, ks + t.m - 1)),
              source |-> IF t.g THEN SubSeq(s, t.i + 1, t.i + t.j) ELSE Empty,
              update |-> t.b]

-----------------------------------------------------------------------------
(* Results of calls that may raise                                         *)

Ok(v)    == [exc |-> "", val |-> {v}]
Raise(e) == [exc |-> e, val |-> {}]
The(S)   == CHOOSE x \in S : TRUE

-----------------------------------------------------------------------------
(* Dates (utils.py)                                                        *)
(* A date-like is None or a string; parse_keyword splits the string at     *)
(* '/', '.' and '-', so a string is modelled by the numbers it splits      *)
(* into, and a formatted date 'YYYY-mm-dd' by <<year, month, day>>.        *)

None        == [given |-> FALSE, fields |-> << >>]
DateStr(f)  == [given |-> TRUE, fields |-> f]

\* datetime.now() at midnight, formatted.
Today    == <<2018, 8, 1>>
ThisYear == Today[1]

\* The day of the month exists (no leap years among the years used).
DaysIn(m) == IF m = 2 THEN 28 ELSE IF m \in {4, 6, 9, 11} THEN 30 ELSE 31
IsDay(m, d) == m \in 1..12 /\ d \in 1..DaysIn(m)

\* %y: 69..99 are 1969..1999 and 0..68 are 2000..2068; %Y: four digits.
FullYear(y) ==
    IF y \in 0..68 THEN 2000 + y ELSE IF y \in 69..99 THEN 1900 + y ELSE y

parse_date(date_like) ==
    IF ~date_like.given THEN Ok(Today)
    ELSE LET f == date_like.fields IN
         CASE Len(f) = 2 /\ IsDay(f[1], f[2]) -> Ok(<<ThisYear, f[1], f[2]>>)
           [] Len(f) = 3 /\ IsDay(f[2], f[3]) /\ FullYear(f[1]) \in 1000..9999
                -> Ok(<<FullYear(f[1]), f[2], f[3]>>)
           [] OTHER -> Raise("ValueError")

\* A slip: the old date is read after the new one was assigned.
DateManager_OldIsNew(DATE, date_like) ==
    LET d == parse_date(date_like) IN
    IF d.exc # "" THEN [exc |-> d.exc, DATE |-> DATE, self |-> {}]
    ELSE [exc |-> "", DATE |-> The(d.val),
          self |-> {[date_old |-> The(d.val), date_new |-> The(d.val)]}]

\* DateManager(date_like): the instance made and azely.DATE after; nothing
\* is assigned when parse_date raises.
DateManager(DATE, date_like) ==
    LET d == parse_date(date_like) IN
    IF d.exc # "" THEN [exc |-> d.exc, DATE |-> DATE, self |-> {}]
    ELSE [exc |-> "", DATE |-> The(d.val),
          self |-> {[date_old |-> DATE, date_new |-> The(d.val)]}]

\* A slip: leaving the block leaves the date as the block set it.
DateManager_exit_Keep(self) == self.date_new

\* DateManager.__exit__: azely.DATE after the block; it returns None, so an
\* exception raised in the block goes on.
DateManager_exit(self) == self.date_old

\* The globals as the package is imported: DATE = parse_date(), no block
\* open, the locations instance not yet made.
AtImport == [DATE |-> The(parse_date(None).val), blocks |-> << >>,
             locations |-> [reload |-> TRUE, dict |-> {}]]

-----------------------------------------------------------------------------
(* Constants of the package                                                *)

HERE        == <<"h", "e", "r", "e">>
SOLAR_FRAME == "solar"
FRAME       == "icrs"
\* astropy's solar_system_ephemeris.bodies, the names the model uses.
SOLAR_OBJECTS == {sun, moon}

AZELY_OBJECT   == [dir |-> "azely", stem |-> <<"o", "b", "j", "e", "c", "t">>,
                   suffix |-> ".toml"]
AZELY_LOCATION == [dir |-> "azely",
                   stem |-> <<"l", "o", "c", "a", "t", "i", "o", "n">>,
                   suffix |-> ".toml"]

-----------------------------------------------------------------------------
(* Paths and the file system                                               *)

\* Path(source).expanduser().resolve() of a bare file name: a file of the
\* current directory, with the suffix .toml split off when it is written.
DotToml == <<".", "t", "o", "m", "l">>

PathOf(source) ==
    LET n == Len(source) IN
    IF n > 5 /\ SubSeq(source, n - 4, n) = DotToml
    THEN [dir |-> "cwd", stem |-> SubSeq(source, 1, n - 5), suffix |-> ".toml"]
    ELSE [dir |-> "cwd", stem |-> source, suffix |-> ""]

with_suffix(p, suffix) == [p EXCEPT !.suffix = suffix]

\* AZELY_DIR / toml.name
InAzelyDir(p) == [p EXCEPT !.dir = "azely"]

UserPaths == { [dir |-> d, stem |-> User, suffix |-> x] :
                 d \in {"cwd", "azely"}, x \in {"", ".toml"} }

AllPaths == {AZELY_OBJECT, AZELY_LOCATION} \cup UserPaths

exists(files, p) == p \in DOMAIN files /\ files[p].exists

\* A slip: the file of the config directory is tried before the suffix.
resolve_ConfigFirst(files, toml) ==
    LET c1 == toml
        c2 == with_suffix(c1, ".toml")
        c3 == InAzelyDir(c2)
    IN  IF exists(files, c1) THEN Ok(c1)
        ELSE IF exists(files, c3) THEN Ok(c3)
        ELSE IF exists(files, c2) THEN Ok(c2)
        ELSE Raise("FileNotFoundError")

\* resolve(toml): the first candidate that exists, else FileNotFoundError.
resolve(files, toml) ==
    LET c1 == toml
        c2 == with_suffix(c1, ".toml")
        c3 == InAzelyDir(c2)
    IN  IF exists(files, c1) THEN Ok(c1)
        ELSE IF exists(files, c2) THEN Ok(c2)
        ELSE IF exists(files, c3) THEN Ok(c3)
        ELSE Raise("FileNotFoundError")

-----------------------------------------------------------------------------
(* TOML documents: a set of [key, val] items, val a dictionary of fields.  *)
(* A file is valid when its text parses as TOML; doc is then the document, *)
(* and otherwise the items that stand complete in the text.                *)

EmptyDoc == {}

Has(doc, k) == \E e \in doc : e.key = k

\* doc[k]
Get(doc, k) == (CHOOSE e \in doc : e.key = k).val

\* A slip: the document is begun anew with the item of k.
Put_Alone(doc, k, v) == {[key |-> k, val |-> v]}

\* A slip: the new item is added beside the item k already has.
Put_Append(doc, k, v) == doc \cup {[key |-> k, val |-> v]}

\* A slip: doc.setdefault(k, v), which keeps the item k already has.
Put_KeepOld(doc, k, v) ==
    IF Has(doc, k) THEN doc ELSE doc \cup {[key |-> k, val |-> v]}

\* doc[k] = v: the item of k is replaced, or appended when k is new.
Put(doc, k, v) == {e \in doc : e.key # k} \cup {[key |-> k, val |-> v]}

\* A slip: a text that does not parse is read as the items it has.
IsToml_Lenient(files, p) == TRUE

\* tomlkit.load(file) parses the text, and raises when it is no TOML.
IsToml(files, p) == files[p].valid

load(files, p) == files[p].doc

\* A slip: the file is opened for writing and nothing is written to it.
dump_Empty(files, p, doc) ==
    [files EXCEPT ![p] = [exists |-> TRUE, valid |-> TRUE, doc |-> EmptyDoc]]

dump(files, p, doc) ==
    [files EXCEPT ![p] = [exists |-> TRUE, valid |-> TRUE, doc |-> doc]]

\* A slip: the document is read and never written back.
sync_toml_NoWrite(files, p, doc, exc) == files

\* sync_toml(toml): the document is written back when the with-block is left
\* normally (a return included), and not when it is left by an exception.
sync_toml(files, p, doc, exc) ==
    IF exc = "" THEN dump(files, p, doc) ELSE files

-----------------------------------------------------------------------------
(* Records: Object and Location, and the units their constructors add      *)

\* str(Longitude(x, "hr")): an angle written with units is converted to
\* hours; a string that is no angle raises ValueError.
HourAngles == {"12h29m06s", "16h42m58s"}

IsHourAngle(x) == x \in HourAngles \cup {"187d16m40s", "250d44m42s"}

HourAngleStr(x) ==
    CASE x = "187d16m40s" -> "12h29m06s"
      [] x = "250d44m42s" -> "16h42m58s"
      [] OTHER            -> x

\* str(Longitude(x, "deg")) and str(Latitude(x, "deg")): a bare number takes
\* the unit and is written in degrees, minutes and seconds.
DegAngles == {"139d41m24s", "-67d45m11s", "35d40m48s", "2d03m08s"}

IsDegAngle(x) == x \in DegAngles \cup {"139.69", "-67.7531", "35.68"}

DegAngleStr(x) ==
    CASE x = "139.69"   -> "139d41m24s"
      [] x = "-67.7531" -> "-67d45m11s"
      [] x = "35.68"    -> "35d40m48s"
      [] OTHER          -> x

\* str(Quantity(x, "m"))
IsLength(x) == x \in {"0.0 m", "0"}

LengthStr(x) == IF x = "0" THEN "0.0 m" ELSE x

ObjectFields   == {"name", "longitude", "latitude", "frame"}
LocationFields == {"name", "longitude", "latitude", "altitude"}

\* Object(**d) with Object.__post_init__
Object(d) ==
    IF DOMAIN d # ObjectFields THEN Raise("TypeError")
    ELSE IF d.frame = SOLAR_FRAME THEN Ok(d)
    ELSE IF ~(IsHourAngle(d.longitude) /\ IsDegAngle(d.latitude))
         THEN Raise("ValueError")
    ELSE Ok([d EXCEPT !.longitude = HourAngleStr(d.longitude),
                      !.latitude  = DegAngleStr(d.latitude)])

\* Location(**d) with Location.__post_init__; altitude defaults to "0.0 m".
Location(d) ==
    IF ~(DOMAIN d \subseteq LocationFields
         /\ {"name", "longitude", "latitude"} \subseteq DOMAIN d)
    THEN Raise("TypeError")
    ELSE LET altitude == IF "altitude" \in DOMAIN d THEN d.altitude ELSE "0.0 m" IN
         IF ~(IsDegAngle(d.longitude) /\ IsDegAngle(d.latitude) /\ IsLength(altitude))
         THEN Raise("ValueError")
         ELSE Ok([name      |-> d.name,
                  longitude |-> DegAngleStr(d.longitude),
                  latitude  |-> DegAngleStr(d.latitude),
                  altitude  |-> LengthStr(altitude)])

\* A slip: every item is built as an Object, whatever func returns.
DataClass_AlwaysObject(func, d) == Object(d)

\* The return annotation of the wrapped function.
DataClass(func, d) ==
    IF func \in {"get_object_solar", "get_object_by_name"} THEN Object(d)
    ELSE Location(d)

\* dataclasses.asdict: the fields of the record, as they are.
asdict(record) == record

-----------------------------------------------------------------------------
(* The network services, as what one request can answer                    *)

\* SkyCoord.from_name (CDS): coordinates, or NameResolveError.
CdsAnswers ==
    { [exc |-> "", name |-> Empty, lon |-> x, lat |-> "2d03m08s"] :
        x \in {"187d16m40s", "250d44m42s"} }
    \cup { [exc |-> "NameResolveError", name |-> Empty, lon |-> "", lat |-> ""] }

\* EarthLocation.of_address (OpenStreetMap): coordinates, or NameResolveError.
OsmAnswers ==
    { [exc |-> "", name |-> Empty, lon |-> "139.69", lat |-> "35.68"],
      [exc |-> "NameResolveError", name |-> Empty, lon |-> "", lat |-> ""] }

\* requests' api.get(IPINFO_URL).json(): city and "lat,lon", or an error of
\* the request.
IpAnswers ==
    { [exc |-> "", name |-> Tokyo, lon |-> "-67.7531", lat |-> "35.68"] }
    \cup { [exc |-> e, name |-> Empty, lon |-> "", lat |-> ""] :
             e \in {"ConnectionError", "ReadTimeout"} }

-----------------------------------------------------------------------------
(* The wrapped functions                                                   *)

get_object_solar(query) ==
    Object([name |-> query, longitude |-> "NA", latitude |-> "NA",
            frame |-> SOLAR_FRAME])

get_object_by_name(query, frame, net) ==
    IF net.exc # "" THEN Raise(net.exc)
    ELSE Object([name |-> query, longitude |-> net.lon, latitude |-> net.lat,
                 frame |-> frame])

get_location_by_ip(net) ==
    IF net.exc = "ConnectionError" THEN Raise("AzelyError")
    ELSE IF net.exc # "" THEN Raise(net.exc)
    ELSE Location([name |-> net.name, longitude |-> net.lon, latitude |-> net.lat])

get_location_by_name(query, net) ==
    IF net.exc = "NameResolveError" THEN Raise("AzelyError")
    ELSE IF net.exc # "" THEN Raise(net.exc)
    ELSE Location([name |-> query, longitude |-> net.lon, latitude |-> net.lat])

\* A slip: when the name is not resolved, the solar strategy is tried in its
\* place.
Call_SolarFallback(func, query, frame, net) ==
    IF func = "get_object_by_name" /\ get_object_by_name(query, frame, net).exc # ""
    THEN get_object_solar(query)
    ELSE CASE func = "get_object_solar"     -> get_object_solar(query)
           [] func = "get_object_by_name"   -> get_object_by_name(query, frame, net)
           [] func = "get_location_by_ip"   -> get_location_by_ip(net)
           [] func = "get_location_by_name" -> get_location_by_name(query, net)

\* func(*args, **kwargs)
Call(func, query, frame, net) ==
    CASE func = "get_object_solar"     -> get_object_solar(query)
      [] func = "get_object_by_name"   -> get_object_by_name(query, frame, net)
      [] func = "get_location_by_ip"   -> get_location_by_ip(net)
      [] func = "get_location_by_name" -> get_location_by_name(query, net)

\* The service a wrapped function asks.
Service(func) ==
    CASE func = "get_object_solar"     -> {}
      [] func = "get_object_by_name"   -> {"cds"}
      [] func = "get_location_by_ip"   -> {"ipinfo"}
      [] func = "get_location_by_name" -> {"osm"}

-----------------------------------------------------------------------------
(* @cache                                                                  *)

\* A slip: the function is called whether or not the query has an item.
NeedsCompute_Always(update, doc, query) == TRUE

\* if update or query not in doc
NeedsCompute(update, doc, query) == update \/ ~Has(doc, query)

\* A slip: a forced update drops the old item before func has returned, and
\* the document is written back even when the with-block raises.
wrapper_DropFirst(files, func, query, frame, source, update, net) ==
    LET r == resolve(files, source) IN
    IF r.exc # ""
    THEN [files |-> files, ret |-> {}, exc |-> r.exc, ncompute |-> 0,
          computed |-> {}, cexc |-> "", network |-> {}, hit |-> FALSE,
          path |-> {}]
    ELSE IF ~IsToml(files, The(r.val))
    THEN [files |-> files, ret |-> {}, exc |-> "tomlkit.ParseError",
          ncompute |-> 0, computed |-> {}, cexc |-> "", network |-> {},
          hit |-> FALSE, path |-> r.val]
    ELSE
    LET p       == The(r.val)
        doc     == load(files, p)
        compute == NeedsCompute(update, doc, query)
        doc0    == IF update THEN {e \in doc : e.key # query} ELSE doc
        c       == IF compute THEN Call(func, query, frame, net) ELSE Raise("")
        doc1    == IF compute /\ c.exc = ""
                   THEN Put(doc0, query, asdict(The(c.val))) ELSE doc0
        d       == IF compute /\ c.exc # "" THEN Raise(c.exc)
                   ELSE DataClass(func, Get(doc1, query))
    IN  [files    |-> dump(files, p, doc1),
         ret      |-> d.val,
         exc      |-> d.exc,
         ncompute |-> IF compute THEN 1 ELSE 0,
         computed |-> c.val,
         cexc     |-> c.exc,
         network  |-> IF compute THEN Service(func) ELSE {},
         hit      |-> Has(doc, query),
         path     |-> {p}]

\* The wrapper of a cached function. location.py names the path parameter
\* cache where object.py names it source; it is the same argument.
\* Beside the record returned (ret) or the exception raised (exc), the result
\* tells what the call did: whether func ran, what it returned or raised, the
\* service it asked, and whether query had an item when the file was read.
wrapper(files, func, query, frame, source, update, net) ==
    LET r == resolve(files, source) IN
    IF r.exc # ""
    THEN [files |-> files, ret |-> {}, exc |-> r.exc, ncompute |-> 0,
          computed |-> {}, cexc |-> "", network |-> {}, hit |-> FALSE,
          path |-> {}]
    ELSE IF ~IsToml(files, The(r.val))
    THEN [files |-> files, ret |-> {}, exc |-> "tomlkit.ParseError",
          ncompute |-> 0, computed |-> {}, cexc |-> "", network |-> {},
          hit |-> FALSE, path |-> r.val]
    ELSE
    LET p       == The(r.val)
        doc     == load(files, p)
        compute == NeedsCompute(update, doc, query)
        c       == IF compute THEN Call(func, query, frame, net) ELSE Raise("")
        doc1    == IF compute /\ c.exc = ""
                   THEN Put(doc, query, asdict(The(c.val))) ELSE doc
        d       == IF compute /\ c.exc # "" THEN Raise(c.exc)
                   ELSE DataClass(func, Get(doc1, query))
    IN  [files    |-> sync_toml(files, p, doc1, d.exc),
         ret      |-> d.val,
         exc      |-> d.exc,
         ncompute |-> IF compute THEN 1 ELSE 0,
         computed |-> c.val,
         cexc     |-> c.exc,
         network  |-> IF compute THEN Service(func) ELSE {},
         hit      |-> Has(doc, query),
         path     |-> {p}]

-----------------------------------------------------------------------------
(* get_object and get_location                                             *)

\* A slip: the query is compared as written, without lower().
ObjectFunc_CaseSensitive(parsed) ==
    IF parsed.query \in SOLAR_OBJECTS
    THEN "get_object_solar" ELSE "get_object_by_name"

\* if parsed.query.lower() in SOLAR_OBJECTS
ObjectFunc(parsed) ==
    IF Lower(parsed.query) \in SOLAR_OBJECTS
    THEN "get_object_solar" ELSE "get_object_by_name"

\* A slip: the query is compared as written, without lower().
LocationFunc_CaseSensitive(parsed) ==
    IF parsed.query = HERE
    THEN "get_location_by_ip" ELSE "get_location_by_name"

\* if parsed.query.lower() == HERE
LocationFunc(parsed) ==
    IF Lower(parsed.query) = HERE
    THEN "get_location_by_ip" ELSE "get_location_by_name"

\* parsed.source or <the default file>
SourceOr(parsed, default) ==
    IF parsed.source # Empty THEN PathOf(parsed.source) ELSE default

\* What one call did, as the history keeps it.
Done(fn, func, parsed, pre, w) ==
    [fn |-> fn, func |-> func, key |-> parsed.query, source |-> parsed.source,
     update |-> parsed.update, path |-> w.path, hit |-> w.hit,
     ncompute |-> w.ncompute, computed |-> w.computed, cexc |-> w.cexc,
     network |-> w.network, ret |-> w.ret, exc |-> w.exc,
     pre |-> pre, post |-> w.files]

ParseFailed(fn, files) ==
    [fn |-> fn, func |-> "", key |-> Empty, source |-> Empty, update |-> FALSE,
     path |-> {}, hit |-> FALSE, ncompute |-> 0, computed |-> {}, cexc |-> "",
     network |-> {}, ret |-> {}, exc |-> "ParseError",
     pre |-> files, post |-> files]

get_object(files, query, frame, net) ==
    LET parsed == parse(query) IN
    IF ~parsed.ok THEN ParseFailed("get_object", files)
    ELSE LET func == ObjectFunc(parsed) IN
         Done("get_object", func, parsed, files,
              wrapper(files, func, parsed.query, frame,
                      SourceOr(parsed, AZELY_OBJECT), parsed.update, net))

get_location(files, query, net) ==
    LET parsed == parse(query) IN
    IF ~parsed.ok THEN ParseFailed("get_location", files)
    ELSE LET func == LocationFunc(parsed) IN
         Done("get_location", func, parsed, files,
              wrapper(files, func, parsed.query, FRAME,
                      SourceOr(parsed, AZELY_LOCATION), parsed.update, net))

-----------------------------------------------------------------------------
(* The queries and the files of a run                                      *)

ObjectQueries ==
    { Sun, sun, Sun \o Bang, User \o Colon \o Sun \o Bang,
      M87, M87 \o Bang, User \o Colon \o M87, User \o Colon \o M87 \o Bang,
      Bang }

LocationQueries ==
    { HERE, Here \o Bang, Tokyo, Tokyo \o Bang, User \o Colon \o Tokyo, Blank }

UserFile == [dir |-> "cwd", stem |-> User, suffix |-> ".toml"]

File(doc) == [exists |-> TRUE, valid |-> TRUE, doc |-> doc]
NoFile    == [exists |-> FALSE, valid |-> TRUE, doc |-> EmptyDoc]

\* A file whose text is cut in the middle of an item, after the items of doc.
CutFile(doc) == [exists |-> TRUE, valid |-> FALSE, doc |-> doc]

M87Record(lon) ==
    [name |-> M87, longitude |-> lon, latitude |-> "2d03m08s", frame |-> FRAME]

SunRecord ==
    [name |-> Sun, longitude |-> "NA", latitude |-> "NA", frame |-> SOLAR_FRAME]

TokyoRecord ==
    [name |-> Tokyo, longitude |-> "139d41m24s", latitude |-> "35d40m48s",
     altitude |-> "0.0 m"]

\* A file as a user wrote it by hand (the longitude in degrees), and a file
\* holding the asdict of a record.
UserDocRaw    == {[key |-> M87, val |-> M87Record("187d16m40s")]}
UserDocRecord == {[key |-> M87, val |-> M87Record("12h29m06s")]}
TokyoDoc      == {[key |-> Tokyo, val |-> TokyoRecord]}
SunDoc        == {[key |-> Sun, val |-> SunRecord]}

\* object.toml, location.toml and ./u.toml when a run starts. Nothing in the
\* package creates object.toml or location.toml, so either may be missing.
InitialChoices ==
    { <<File(EmptyDoc), File(EmptyDoc), NoFile>>,
      <<File(EmptyDoc), File(EmptyDoc), File(EmptyDoc)>>,
      <<NoFile, File(EmptyDoc), File(UserDocRaw)>>,
      <<File(SunDoc), File(TokyoDoc), File(UserDocRecord)>> }

Files(o, l, u) ==
    [p \in AllPaths |->
        CASE p = AZELY_OBJECT   -> o
          [] p = AZELY_LOCATION -> l
          [] p = UserFile       -> u
          [] OTHER              -> NoFile]

InitialFiles == { Files(c[1], c[2], c[3]) : c \in InitialChoices }

-----------------------------------------------------------------------------
(* The state machine                                                       *)

Init ==
    /\ fs \in InitialFiles
    /\ hist = << >>
    /\ run = NoRun
    /\ azely = AtImport

GetObject ==
    /\ Len(hist) < MaxCalls
    /\ \E query \in ObjectQueries, net \in CdsAnswers :
         LET c == get_object(fs, query, FRAME, net) IN
         /\ fs' = c.post
         /\ hist' = Append(hist, c)
         /\ UNCHANGED <<run, azely>>

GetLocation ==
    /\ Len(hist) < MaxCalls
    /\ \E query \in LocationQueries, net \in OsmAnswers \cup IpAnswers :
         LET c == get_location(fs, query, net) IN
         /\ fs' = c.post
         /\ hist' = Append(hist, c)
         /\ UNCHANGED <<run, azely>>

Next == GetObject \/ GetLocation

Spec == Init /\ [][Next]_vars

-----------------------------------------------------------------------------
(* The cache with append and overwrite options that api.calc asks for      *)

AZELY_CACHE == [dir |-> "azely", stem |-> <<"c", "a", "c", "h", "e">>,
                suffix |-> ".toml"]

\* The items of the cache file carry the table (the kind) they belong to.
HasIn(doc, table, k) == \E e \in doc : e.table = table /\ e.key = k

GetIn(doc, table, k) == (CHOOSE e \in doc : e.table = table /\ e.key = k).val

PutIn(doc, table, k, v) ==
    {e \in doc : ~(e.table = table /\ e.key = k)}
    \cup {[table |-> table, key |-> k, val |-> v]}

\* The record of a table's item.
Deserialize(table, d) ==
    CASE table = "object"   -> Object(d)
      [] table = "location" -> Location(d)
      [] OTHER              -> Ok(d)

\* A slip: a computed record is stored whatever the options say.
Persists_Always(hit, append, overwrite) == TRUE

\* Whether the record computed is stored: in place of an item only with
\* overwrite, as a new item only with append.
Persists(hit, append, overwrite) == IF hit THEN overwrite ELSE append

\* get_or_create(table, key, append, overwrite, compute) on the cache file
\* at source, compute given as what it returns or raises (out).
get_or_create_in(files, source, table, key, append, overwrite, out) ==
    LET opened  == IF files[source].exists THEN files
                   ELSE dump(files, source, EmptyDoc)
        doc     == load(opened, source)
        hit     == HasIn(doc, table, key)
        compute == ~hit \/ overwrite
        c       == IF compute THEN out ELSE Raise("")
        store   == compute /\ c.exc = "" /\ Persists(hit, append, overwrite)
        doc1    == IF store THEN PutIn(doc, table, key, asdict(The(c.val)))
                   ELSE doc
        d       == IF compute THEN c ELSE Deserialize(table, GetIn(doc, table, key))
    IN  [fn |-> "get_or_create", table |-> table, key |-> key,
         append |-> append, overwrite |-> overwrite, hit |-> hit,
         ncompute |-> IF compute THEN 1 ELSE 0,
         computed |-> c.val, cexc |-> c.exc,
         ret |-> d.val, exc |-> d.exc,
         pre |-> files,
         post |-> IF store THEN dump(opened, source, doc1) ELSE opened]

\* The cache on the default file.
get_or_create(files, table, key, append, overwrite, out) ==
    get_or_create_in(files, AZELY_CACHE, table, key, append, overwrite, out)

Tables == {"object", "location"}

\* What compute can return or raise for a table's key.
Computes(table, key) ==
    IF table = "object"
    THEN { Object([name |-> key, longitude |-> x, latitude |-> "2d03m08s",
                   frame |-> FRAME]) : x \in {"187d16m40s", "250d44m42s"} }
         \cup {Raise("ResolutionError")}
    ELSE { Location([name |-> key, longitude |-> "139.69", latitude |-> "35.68"]),
           Raise("ResolutionError") }

CacheDocs ==
    { EmptyDoc, {[table |-> "object", key |-> M87, val |-> M87Record("12h29m06s")]} }

InitCore ==
    /\ fs \in { [p \in {AZELY_CACHE} |-> f] :
                  f \in {NoFile} \cup {File(d) : d \in CacheDocs} }
    /\ hist = << >>
    /\ run = NoRun
    /\ azely = AtImport

GetOrCreate ==
    /\ Len(hist) < MaxCalls
    /\ \E table \in Tables, append \in BOOLEAN, overwrite \in BOOLEAN :
         \E out \in Computes(table, M87) :
           LET c == get_or_create(fs, table, M87, append, overwrite, out) IN
           /\ fs' = c.post
           /\ hist' = Append(hist, c)
           /\ UNCHANGED <<run, azely>>

NextCore == GetOrCreate

SpecCore == InitCore /\ [][NextCore]_vars

-----------------------------------------------------------------------------
(* parse on its own: every string of a small alphabet up to MaxLen         *)

\* The longest query string that is parsed.
MaxLen == 4

Chars == {"a", "u", " ", ":", "!"}

RECURSIVE StringsOf(_)
StringsOf(n) ==
    IF n = 0 THEN {<< >>}
    ELSE LET S == StringsOf(n - 1) IN
         S \cup { Append(t, c) : t \in {x \in S : Len(x) = n - 1}, c \in Chars }

QueryStrings == StringsOf(MaxLen)

\* What a call of parse did: the string, and the ParsedQuery or the error.
Parsed(string) ==
    LET r == parse(string) IN
    [fn |-> "parse", string |-> string, ok |-> r.ok, query |-> r.query,
     source |-> r.source, update |-> r.update,
     exc |-> IF r.ok THEN "" ELSE "ParseError"]

InitParse ==
    /\ fs = [p \in {AZELY_CACHE} |-> NoFile]
    /\ hist = << >>
    /\ run = NoRun
    /\ azely = AtImport

Parse ==
    /\ hist = << >>
    /\ \E string \in QueryStrings : hist' = <<Parsed(string)>>
    /\ UNCHANGED <<fs, run, azely>>

NextParse == Parse

SpecParse == InitParse /\ [][NextParse]_vars

-----------------------------------------------------------------------------
(* The same calls, started with a file that is no TOML                     *)

CorruptChoices ==
    { <<CutFile(SunDoc), File(TokyoDoc), File(UserDocRecord)>>,
      <<File(EmptyDoc), CutFile(EmptyDoc), CutFile(UserDocRecord)>> }

InitCorrupt ==
    /\ fs \in { Files(c[1], c[2], c[3]) : c \in CorruptChoices }
    /\ hist = << >>
    /\ run = NoRun
    /\ azely = AtImport

SpecCorrupt == InitCorrupt /\ [][Next]_vars

-----------------------------------------------------------------------------
(* cache.wrapper step by step: get_object_by_name on object.toml, called   *)
(* for "M87" or "M31" by two processes that share the file and take no lock *)

StepFunc    == "get_object_by_name"
StepQuery   == M87
StepQueries == {StepQuery, M31}
StepPath    == AZELY_OBJECT

\* A slip: the with-block begins with an empty document.
Current_Empty(files, p, doc) == EmptyDoc

\* A slip: the with-block looks at the file again instead of the document
\* it loaded.
Current_Reload(files, p, doc) == load(files, p)

\* The document the with-block works on: the one sync_toml loaded and
\* yielded, whatever became of the file since.
Current(files, p, doc) == doc

\* with sync_toml(resolve(source)) as doc: the file is opened for reading
\* and parsed.
Enter(p) ==
    /\ run[p].pc = "idle"
    /\ \E query \in StepQueries, update \in BOOLEAN :
         LET r     == resolve(fs, StepPath)
             ended == {q \in Procs : run[q].pc = "done"}
             call  == [run[p] EXCEPT !.query = query, !.update = update,
                                     !.after = ended]
         IN
         run' = [run EXCEPT ![p] =
                   IF r.exc # "" THEN [call EXCEPT !.pc = "done", !.exc = r.exc]
                   ELSE IF ~IsToml(fs, The(r.val))
                   THEN [call EXCEPT !.pc = "done", !.exc = "tomlkit.ParseError"]
                   ELSE [call EXCEPT !.pc = "loaded",
                                     !.read = load(fs, The(r.val)),
                                     !.doc = load(fs, The(r.val))]]
    /\ UNCHANGED <<fs, hist, azely>>

\* The body of the with statement: func is called on a miss or an update,
\* the item assigned, and the record to return built from the item.
Compute(p) ==
    /\ run[p].pc = "loaded"
    /\ \E net \in CdsAnswers :
         LET query   == run[p].query
             doc     == Current(fs, StepPath, run[p].doc)
             compute == NeedsCompute(run[p].update, doc, query)
             c       == IF compute THEN Call(StepFunc, query, FRAME, net)
                        ELSE Raise("")
             doc1    == IF compute /\ c.exc = ""
                        THEN Put(doc, query, asdict(The(c.val))) ELSE doc
             d       == IF compute /\ c.exc # "" THEN Raise(c.exc)
                        ELSE DataClass(StepFunc, Get(doc1, query))
         IN  run' = [run EXCEPT ![p] =
                       [@ EXCEPT !.pc = IF d.exc = "" THEN "leaving" ELSE "done",
                                 !.doc = doc1,
                                 !.ncompute = IF compute THEN 1 ELSE 0,
                                 !.ret = d.val, !.exc = d.exc]]
    /\ UNCHANGED <<fs, hist, azely>>

\* open(toml, "w"): the file is emptied.
OpenW(p) ==
    /\ run[p].pc = "leaving"
    /\ fs' = dump(fs, StepPath, EmptyDoc)
    /\ run' = [run EXCEPT ![p].pc = "writing"]
    /\ UNCHANGED <<hist, azely>>

\* dump(doc, file), as far as one flush of the buffer takes the text: some
\* of the items, and the beginning of the next.
WriteSome(p) ==
    /\ run[p].pc = "writing"
    /\ \E part \in (SUBSET run[p].doc) \ {run[p].doc} :
         fs' = [fs EXCEPT ![StepPath] = CutFile(part)]
    /\ run' = [run EXCEPT ![p].pc = "flushing"]
    /\ UNCHANGED <<hist, azely>>

\* The rest of the text is written and the file closed; the call returns.
Close(p) ==
    /\ run[p].pc \in {"writing", "flushing"}
    /\ fs' = dump(fs, StepPath, run[p].doc)
    /\ run' = [run EXCEPT ![p].pc = "done"]
    /\ UNCHANGED <<hist, azely>>

\* The process is interrupted or killed where it is; the file stays as the
\* steps taken so far left it.
Interrupt(p) ==
    /\ run[p].pc \in {"loaded", "leaving", "writing", "flushing"}
    /\ run' = [run EXCEPT ![p] =
                 [@ EXCEPT !.pc = "done", !.ret = {}, !.exc = "KeyboardInterrupt"]]
    /\ UNCHANGED <<fs, hist, azely>>

InitSteps ==
    /\ fs \in { [p \in {StepPath} |-> File(d)] :
                  d \in {EmptyDoc, SunDoc, UserDocRecord} }
    /\ hist = << >>
    /\ run = NoRun
    /\ azely = AtImport

NextSteps ==
    \E p \in Procs :
        \/ Enter(p)
        \/ Compute(p)
        \/ OpenW(p)
        \/ WriteSome(p)
        \/ Close(p)
        \/ Interrupt(p)

SpecSteps == InitSteps /\ [][NextSteps]_vars

-----------------------------------------------------------------------------
(* resolve on its own: every set of files a source can stand for           *)

\* What cache.wrapper passes to resolve: a source as the query names it, or
\* the default file of the function.
Sources == {PathOf(User), PathOf(User \o DotToml), AZELY_OBJECT, AZELY_LOCATION}

Resolved(files, toml) ==
    LET r == resolve(files, toml) IN
    [fn |-> "resolve", toml |-> toml, ret |-> r.val, exc |-> r.exc]

InitResolve ==
    /\ fs \in [AllPaths -> {NoFile, File(EmptyDoc)}]
    /\ hist = << >>
    /\ run = NoRun
    /\ azely = AtImport

Resolve ==
    /\ Len(hist) < MaxCalls
    /\ \E toml \in Sources : hist' = Append(hist, Resolved(fs, toml))
    /\ UNCHANGED <<fs, run, azely>>

NextResolve == Resolve

SpecResolve == InitResolve /\ [][NextResolve]_vars

-----------------------------------------------------------------------------
(* azely.set_date, called plainly and as a context manager                 *)

\* The deepest nesting of with-blocks and the number of calls and exits in
\* one run.
MaxDepth  == 2
MaxEvents == 4

\* '2018-01-23', '18.01.23', '7/31', '2018/07/31', None, and strings that
\* are no dates: '13/45', 'someday'.
DateLikes ==
    { None, DateStr(<<2018, 1, 23>>), DateStr(<<18, 1, 23>>),
      DateStr(<<7, 31>>), DateStr(<<2018, 7, 31>>), DateStr(<<13, 45>>),
      DateStr(<< >>) }

NoFiles == [p \in AllPaths |-> NoFile]

\* The innermost open block is marked when its body sets the date itself.
Mark(blocks) ==
    IF blocks = << >> THEN blocks
    ELSE [blocks EXCEPT ![Len(blocks)].dirty = TRUE]

\* azely.set_date(date_like), the manager returned being dropped.
SetDate ==
    /\ Len(hist) < MaxEvents
    /\ \E date_like \in DateLikes :
         LET m == DateManager(azely.DATE, date_like) IN
         /\ azely' = [azely EXCEPT
                         !.DATE = m.DATE,
                         !.blocks = IF m.exc = "" THEN Mark(@) ELSE @]
         /\ hist' = Append(hist,
                [fn |-> "set_date", date_like |-> date_like,
                 depth |-> Len(azely.blocks), before |-> azely.DATE,
                 after |-> m.DATE, exc |-> m.exc])
    /\ UNCHANGED <<fs, run>>

\* with azely.set_date(date_like): the manager is made and the block
\* entered; when parse_date raises there is no block.
With ==
    /\ Len(hist) < MaxEvents
    /\ Len(azely.blocks) < MaxDepth
    /\ \E date_like \in DateLikes :
         LET m == DateManager(azely.DATE, date_like) IN
         /\ azely' = [azely EXCEPT
                         !.DATE = m.DATE,
                         !.blocks =
                            IF m.exc # "" THEN @
                            ELSE Append(@, [self |-> The(m.self),
                                            date_like |-> date_like,
                                            before |-> azely.DATE,
                                            dirty |-> FALSE])]
         /\ hist' = Append(hist,
                [fn |-> "with", date_like |-> date_like,
                 depth |-> Len(azely.blocks), before |-> azely.DATE,
                 after |-> m.DATE, exc |-> m.exc])
    /\ UNCHANGED <<fs, run>>

\* The innermost block is left, at its end or by an exception raised in it.
Exit ==
    /\ Len(hist) < MaxEvents
    /\ azely.blocks # << >>
    /\ \E how \in {"end", "exception"} :
         LET n     == Len(azely.blocks)
             block == azely.blocks[n]
             DATE  == DateManager_exit(block.self)
         IN
         /\ azely' = [azely EXCEPT !.DATE = DATE,
                                   !.blocks = SubSeq(@, 1, n - 1)]
         /\ hist' = Append(hist,
                [fn |-> "__exit__", date_like |-> block.date_like,
                 depth |-> n, before |-> block.before, after |-> DATE,
                 exc |-> IF how = "exception" THEN "Exception" ELSE ""])
    /\ UNCHANGED <<fs, run>>

InitDate ==
    /\ fs = NoFiles
    /\ hist = << >>
    /\ run = NoRun
    /\ azely = AtImport

NextDate ==
    \/ SetDate
    \/ With
    \/ Exit

SpecDate == InitDate /\ [][NextDate]_vars

-----------------------------------------------------------------------------
(* Locations (locations.py): a dict kept equal to known_locations.yaml,    *)
(* whose items are asked of the Google Maps API                            *)

KNOWN_LOCS == [dir |-> ".azely",
               stem |-> <<"k", "n", "o", "w", "n", "_", "l", "o", "c", "a",
                          "t", "i", "o", "n", "s">>,
               suffix |-> ".yaml"]

\* The keys of a location that have TZ = 'timezone' in them.
TzKeys == {"timezone_date", "timezone_name", "timezone_hour"}

\* read_yaml: the mapping of the file, the empty one when it does not load.
read_yaml(files, path) ==
    IF files[path].valid THEN files[path].doc ELSE EmptyDoc

write_yaml(files, path, data) == [files EXCEPT ![path] = File(data)]

\* dict.update
Update(doc, other) == {e \in doc : ~Has(other, e.key)} \cup other

\* ' '.join(parse_keyword(name)): the name split at commas, the parts
\* stripped and joined by blanks.
Keyword(name) ==
    CASE name = "mitaka, tokyo" -> "mitaka tokyo"
      [] OTHER                  -> name

\* What the two services answer. The geocode service gives the address, and
\* may give it in other words than before; the timezone service gives the
\* zone of the place on the date.
Address1 == "San Pedro de Atacama, Antofagasta Region, Chile"
Address2 == "San Pedro de Atacama, Chile"

GeocodeAnswers ==
    { Ok(Address1), Ok(Address2), Raise("URLError"), Raise("ValueError"),
      Raise("IndexError") }

TimezoneAnswers == { "", "URLError", "ValueError", "socket.timeout" }

MapsAnswers ==
    { [geocode |-> g, timezone |-> t] :
        g \in GeocodeAnswers, t \in TimezoneAnswers }

TimezoneOn(date) ==
    IF date[2] \in 4..8
    THEN [name |-> "Chile Standard Time", hour |-> 0 - 4]
    ELSE [name |-> "Chile Summer Time", hour |-> 0 - 3]

\* _request_location and _request_api: the geocode request, then the
\* timezone request; either raises when the service cannot be reached or
\* answers with a status that is not OK.
request_location(query, date, net) ==
    IF net.geocode.exc # ""
    THEN [exc |-> net.geocode.exc, val |-> {}, requests |-> <<"geocode">>]
    ELSE IF net.timezone # ""
    THEN [exc |-> net.timezone, val |-> {},
          requests |-> <<"geocode", "timezone">>]
    ELSE [exc |-> "",
          val |-> {[name |-> "San Pedro de Atacama", query |-> query,
                    address |-> The(net.geocode.val),
                    latitude |-> "-23.02", longitude |-> "-67.75",
                    timezone_date |-> date,
                    timezone_name |-> TimezoneOn(date).name,
                    timezone_hour |-> TimezoneOn(date).hour]},
          requests |-> <<"geocode", "timezone">>]

NoRequest(self, exc) ==
    [self |-> self, exc |-> exc, requests |-> << >>, rexc |-> ""]

\* _add_location: what the request raises is raised again.
add_location(self, name, date_like, net) ==
    LET date == parse_date(date_like) IN
    IF date.exc # "" THEN NoRequest(self, date.exc)
    ELSE LET r == request_location(Keyword(name), The(date.val), net) IN
         [self |-> IF r.exc = "" THEN Put(self, name, The(r.val)) ELSE self,
          exc |-> r.exc, requests |-> r.requests, rexc |-> r.exc]

\* location_old.update(tz_info)
WithTimezone(location_old, location_new) ==
    [k \in DOMAIN location_old \cup TzKeys |->
        IF k \in TzKeys THEN location_new[k] ELSE location_old[k]]

\* A slip: what the request raises is raised again, as in _add_location.
update_location_Reraise(self, name, date_like, net) ==
    LET location_old == Get(self, name)
        date         == parse_date(date_like)
    IN
    IF date.exc # "" THEN NoRequest(self, date.exc)
    ELSE IF "timezone_date" \notin DOMAIN location_old
    THEN NoRequest(self, "KeyError")
    ELSE IF location_old.timezone_date = The(date.val) THEN NoRequest(self, "")
    ELSE IF "query" \notin DOMAIN location_old THEN NoRequest(self, "")
    ELSE LET r == request_location(location_old.query, The(date.val), net) IN
         [self |-> IF r.exc # "" THEN self
                   ELSE Put(self, name, WithTimezone(location_old, The(r.val))),
          exc |-> r.exc, requests |-> r.requests, rexc |-> r.exc]

\* _update_location: the timezone items of a location that has a query are
\* asked anew when the date is not the one they were asked for; what the
\* request raises is logged and dropped.
update_location(self, name, date_like, net) ==
    LET location_old == Get(self, name)
        date         == parse_date(date_like)
    IN
    IF date.exc # "" THEN NoRequest(self, date.exc)
    ELSE IF "timezone_date" \notin DOMAIN location_old
    THEN NoRequest(self, "KeyError")
    ELSE IF location_old.timezone_date = The(date.val) THEN NoRequest(self, "")
    ELSE IF "query" \notin DOMAIN location_old THEN NoRequest(self, "")
    ELSE LET r == request_location(location_old.query, The(date.val), net) IN
         [self |-> IF r.exc # "" THEN self
                   ELSE Put(self, name, WithTimezone(location_old, The(r.val))),
          exc |-> "", requests |-> r.requests, rexc |-> r.exc]

\* Locations(reload=...): the instance after the first loading.
Locations(files, reload) ==
    [reload |-> reload, dict |-> Update(EmptyDoc, read_yaml(files, KNOWN_LOCS))]

\* Locations.__getitem__: the argument is a name or (name, date).
getitem(locations, files, arg, net) ==
    LET self0 == IF locations.reload
                 THEN Update(locations.dict, read_yaml(files, KNOWN_LOCS))
                 ELSE locations.dict
        date  == IF arg.kind = "tuple" THEN arg.date ELSE None
        r     == IF Has(self0, arg.name)
                 THEN update_location(self0, arg.name, date, net)
                 ELSE add_location(self0, arg.name, date, net)
    IN
    IF arg.kind \notin {"tuple", "str"}
    THEN [self |-> self0, files |-> files, cached |-> {}, ret |-> {},
          exc |-> "ValueError", requests |-> << >>, rexc |-> ""]
    ELSE [self |-> r.self,
          files |-> IF r.exc = "" THEN write_yaml(files, KNOWN_LOCS, r.self)
                    ELSE files,
          cached |-> {e.val : e \in {x \in self0 : x.key = arg.name}},
          ret |-> IF r.exc = "" THEN {Get(r.self, arg.name)} ELSE {},
          exc |-> r.exc, requests |-> r.requests, rexc |-> r.rexc]

\* known_locations.yaml when a run starts: empty, or with a location got on
\* the day of the run, or with one got on another day beside two written
\* by hand, one of them with no date.
Alma(date) ==
    [name |-> "San Pedro de Atacama", query |-> "alma observatory",
     address |-> Address1, latitude |-> "-23.02", longitude |-> "-67.75",
     timezone_date |-> date, timezone_name |-> TimezoneOn(date).name,
     timezone_hour |-> TimezoneOn(date).hour]

Aste ==
    [name |-> "ASTE", latitude |-> "-22.97", longitude |-> "-67.70",
     timezone_date |-> <<2018, 1, 23>>, timezone_name |-> "CLST",
     timezone_hour |-> 0 - 3]

Nro == [name |-> "NRO", latitude |-> "35.94", longitude |-> "138.47"]

KnownLocs ==
    { EmptyDoc,
      {[key |-> "alma observatory", val |-> Alma(Today)]},
      {[key |-> "alma observatory", val |-> Alma(<<2018, 1, 23>>)],
       [key |-> "aste", val |-> Aste],
       [key |-> "nro", val |-> Nro]} }

LocationArgs ==
    { [kind |-> "str", name |-> n, date |-> None] :
        n \in {"alma observatory", "aste", "nro", "mitaka, tokyo"} }
    \cup
    { [kind |-> "tuple", name |-> n, date |-> d] :
        n \in {"alma observatory", "aste", "nro"},
        d \in {DateStr(<<18, 1, 23>>), DateStr(<<7, 31>>),
                DateStr(<<13, 45>>)} }
    \cup
    { [kind |-> "int", name |-> "", date |-> None] }

InitLegacy ==
    /\ fs \in { [p \in {KNOWN_LOCS} |-> File(d)] : d \in KnownLocs }
    /\ hist = << >>
    /\ run = NoRun
    /\ \E reload \in BOOLEAN :
         azely = [AtImport EXCEPT !.locations = Locations(fs, reload)]

\* The number of lookups in one run.
MaxLookups == 1

\* locations[name] or locations[name, date]
GetItem ==
    /\ Len(hist) < MaxLookups
    /\ \E arg \in LocationArgs, net \in MapsAnswers :
         LET r == getitem(azely.locations, fs, arg, net) IN
         /\ fs' = r.files
         /\ azely' = [azely EXCEPT !.locations.dict = r.self]
         /\ hist' = Append(hist,
                [fn |-> "Locations.__getitem__", name |-> arg.name,
                 kind |-> arg.kind, date_like |-> arg.date,
                 cached |-> r.cached, requests |-> r.requests,
                 rexc |-> r.rexc, ret |-> r.ret, exc |-> r.exc,
                 pre |-> fs, post |-> r.files])
    /\ UNCHANGED run

NextLegacy == GetItem

SpecLegacy == InitLegacy /\ [][NextLegacy]_vars

-----------------------------------------------------------------------------
(* get_time(query, sep=..., source=None): a time query is                  *)
(* start;end;step;timezone. A query is a sequence of words, ";" and " ".   *)

TimeDefaults == <<"00:00 today", "tomorrow", "10min", "">>

Time(start, end, step, timezone) ==
    [start |-> start, end |-> end, step |-> step, timezone |-> timezone]

\* The text of a field: its words joined by blanks, '' when it has none.
RECURSIVE Words(_)
Words(f) ==
    IF f = << >> THEN << >>
    ELSE IF f[1] = " " THEN Words(Tail(f))
    ELSE <<f[1]>> \o Words(Tail(f))

\* re.split(sep, query) with sep = r"\s*;\s*": the query is cut at every
\* ";" and the blanks next to a ";" go with it. The blanks a piece ends
\* with go when a ";" follows, those it begins with when a ";" leads.
RECURSIVE Pieces(_, _)
Pieces(query, piece) ==
    IF query = << >> THEN <<piece>>
    ELSE IF query[1] = ";"
    THEN <<RStrip(piece)>> \o Pieces(LStrip(Tail(query)), << >>)
    ELSE Pieces(Tail(query), Append(piece, query[1]))

Split(query) == Pieces(query, << >>)

\* A slip: a field that is written empty stays empty.
FieldOr_KeepEmpty(fields, n, default) ==
    IF n <= Len(fields) /\ Len(Words(fields[n])) = 1
    THEN Words(fields[n])[1]
    ELSE IF n <= Len(fields) THEN "" ELSE default

\* The n-th field, or its default when the field is left out or empty.
FieldOr(fields, n, default) ==
    IF n <= Len(fields) /\ Len(Words(fields[n])) = 1
    THEN Words(fields[n])[1]
    ELSE default

get_time(query) ==
    LET fields == Split(query) IN
    IF Len(fields) > Len(TimeDefaults) THEN Raise("AzelyError")
    ELSE Ok(Time(FieldOr(fields, 1, TimeDefaults[1]),
                 FieldOr(fields, 2, TimeDefaults[2]),
                 FieldOr(fields, 3, TimeDefaults[3]),
                 FieldOr(fields, 4, TimeDefaults[4])))

\* What a query is written from: for each of the four fields a word or
\* nothing, the number of fields written out, and the separator.
FieldWords(n) ==
    CASE n = 1 -> {"", "00:00 today", "2020-01-01"}
      [] n = 2 -> {"", "tomorrow", "2020-01-07"}
      [] n = 3 -> {"", "10min", "1h"}
      [] n = 4 -> {"", "UTC"}

Separators == { <<";">>, <<";", " ">>, <<" ", ";", " ">> }

WrittenFields ==
    { w \in [1..4 -> {"", "00:00 today", "2020-01-01", "tomorrow",
                      "2020-01-07", "10min", "1h", "UTC"}] :
        \A n \in 1..4 : w[n] \in FieldWords(n) }

RECURSIVE Join(_, _, _)
Join(w, count, sep) ==
    IF count = 0 THEN << >>
    ELSE IF count = 1 THEN (IF w[1] = "" THEN << >> ELSE <<w[1]>>)
    ELSE Join(w, count - 1, sep) \o sep
         \o (IF w[count] = "" THEN << >> ELSE <<w[count]>>)

InitTime ==
    /\ fs = NoFiles
    /\ hist = << >>
    /\ run = NoRun
    /\ azely = AtImport

\* get_time(query, source=None)
GetTime ==
    /\ hist = << >>
    /\ \E w \in WrittenFields, count \in 0..4, sep \in Separators :
         LET query == Join(w, count, sep)
             t     == get_time(query)
         IN  hist' = <<[fn |-> "get_time", query |-> query,
                        written |-> [n \in 1..4 |->
                                       IF n <= count THEN w[n] ELSE ""],
                        ret |-> t.val, exc |-> t.exc]>>
    /\ UNCHANGED <<fs, run, azely>>

NextTime == GetTime

SpecTime == InitTime /\ [][NextTime]_vars

-----------------------------------------------------------------------------
(* api.calc: the location, the object and the time are each given as a     *)
(* record, as a dictionary of its fields or as a query                     *)

Kinds == <<"location", "object", "time">>

\* source=None: no file is read or written.
NoSource == [dir |-> "", stem |-> << >>, suffix |-> ""]

\* An option given as one value, or as a dictionary by kind.
Single(v)   == [isdict |-> FALSE, val |-> v]
Dict(items) == [isdict |-> TRUE, items |-> items]

\* if not isinstance(option, dict): option = {"location": option, ...}
AsDict(option) ==
    IF option.isdict THEN option.items
    ELSE {[key |-> Kinds[n], val |-> option.val] : n \in 1..3}

\* A slip: a kind the dictionary has not takes the value of a kind it has.
OptionGet_Other(d, kind, default) ==
    IF Has(d, kind) THEN Get(d, kind)
    ELSE IF d # {} THEN (CHOOSE e \in d : TRUE).val
    ELSE default

\* option.get(kind, default)
OptionGet(d, kind, default) == IF Has(d, kind) THEN Get(d, kind) ELSE default

\* get_location, get_object and get_time as calc calls them: the record is
\* computed from the query (out) and kept in the table of its kind in the
\* source file; with source=None it is computed and not kept.
get_info(files, kind, query, append, overwrite, source, out) ==
    IF source = NoSource
    THEN [ret |-> out.val, exc |-> out.exc, post |-> files]
    ELSE LET c == get_or_create_in(files, source, kind, query,
                                   append, overwrite, out)
         IN  [ret |-> c.ret, exc |-> c.exc, post |-> c.post]

\* One of the three if/elif statements of calc: the name is bound from a
\* dictionary or a query and left unbound otherwise.
Bind(files, kind, arg, append, overwrite, source, out) ==
    CASE arg.form = "dict" ->
           LET d == Deserialize(kind, arg.val) IN
           [bound |-> d.exc = "", val |-> d.val, exc |-> d.exc,
            files |-> files, calls |-> << >>]
      [] arg.form = "str" ->
           LET a == OptionGet(AsDict(append), kind, TRUE)
               o == OptionGet(AsDict(overwrite), kind, FALSE)
               s == OptionGet(AsDict(source), kind, AZELY_CACHE)
               g == get_info(files, kind, arg.val, a, o, s, out)
           IN  [bound |-> g.exc = "", val |-> g.ret, exc |-> g.exc,
                files |-> g.post,
                calls |-> <<[kind |-> kind, query |-> arg.val, append |-> a,
                             overwrite |-> o, source |-> s, exc |-> g.exc]>>]
      [] OTHER ->
           [bound |-> FALSE, val |-> {}, exc |-> "",
            files |-> files, calls |-> << >>]

\* str(location_.timezone)
TimezoneOf(location) ==
    IF location.name = Tokyo THEN "Asia/Tokyo" ELSE "UTC"

\* calc from the three statements on: l, o and t are what they left of the
\* location, the object and the time, in this order. The first query that
\* raises ends the call; a name left unbound raises where it is first read.
calc(l, o, t) ==
    LET raised(exc, post, calls) ==
            [ret |-> {}, exc |-> exc, post |-> post, calls |-> calls]
    IN
    IF l.exc # "" THEN raised(l.exc, l.files, l.calls)
    ELSE IF o.exc # "" THEN raised(o.exc, o.files, l.calls \o o.calls)
    ELSE IF t.exc # ""
    THEN raised(t.exc, t.files, l.calls \o o.calls \o t.calls)
    ELSE IF ~(t.bound /\ l.bound /\ o.bound)
    THEN raised("UnboundLocalError", t.files, l.calls \o o.calls \o t.calls)
    ELSE [ret |-> {[location |-> The(l.val), object |-> The(o.val),
                    time |-> [The(t.val) EXCEPT
                                !.timezone = TimezoneOf(The(l.val))]]},
          exc |-> "", post |-> t.files,
          calls |-> l.calls \o o.calls \o t.calls]

\* The statement of a kind is not reached when an earlier one raised.
Skipped(files) ==
    [bound |-> FALSE, val |-> {}, exc |-> "", files |-> files, calls |-> << >>]

\* What calc is called with.
Forms == {"record", "dict", "str"}

Given(form, record, query) ==
    [form |-> form, val |-> IF form = "str" THEN query ELSE record]

TimeQuery  == <<"2020-01-01", ";", "2020-01-07">>
TimeRecord == Time("2020-01-01", "2020-01-07", "10min", "")

AppendOptions ==
    { Single(TRUE), Single(FALSE), Dict({}),
      Dict({[key |-> "object", val |-> FALSE]}) }

OverwriteOptions ==
    { Single(FALSE), Single(TRUE), Dict({[key |-> "location", val |-> TRUE]}) }

SourceOptions ==
    { Single(AZELY_CACHE), Single(NoSource),
      Dict({[key |-> "object", val |-> UserFile]}) }

CalcOuts ==
    { [location |-> l, object |-> o, time |-> get_time(TimeQuery)] :
        l \in Computes("location", Tokyo), o \in Computes("object", M87) }

InitCalc ==
    /\ fs \in { [p \in {AZELY_CACHE, UserFile} |-> File(d)] : d \in CacheDocs }
    /\ hist = << >>
    /\ run = NoRun
    /\ azely = AtImport

\* azely.calc(object, location, time, append=..., overwrite=..., source=...)
Calc ==
    /\ hist = << >>
    /\ \E fo \in Forms, fl \in Forms, ft \in Forms,
          append \in AppendOptions, overwrite \in OverwriteOptions,
          source \in SourceOptions, outs \in CalcOuts :
         \E l \in {Bind(fs, "location", Given(fl, TokyoRecord, Tokyo),
                        append, overwrite, source, outs.location)} :
         \E o \in {IF l.exc # "" THEN Skipped(l.files)
                    ELSE Bind(l.files, "object",
                              Given(fo, M87Record("12h29m06s"), M87),
                              append, overwrite, source, outs.object)} :
         \E t \in {IF l.exc # "" \/ o.exc # "" THEN Skipped(o.files)
                    ELSE Bind(o.files, "time", Given(ft, TimeRecord, TimeQuery),
                              append, overwrite, source, outs.time)} :
         LET c == calc(l, o, t)
         IN  /\ fs' = c.post
             /\ hist' = <<[fn |-> "calc",
                           forms |-> [object |-> fo, location |-> fl, time |-> ft],
                           append |-> append, overwrite |-> overwrite,
                           source |-> source, calls |-> c.calls,
                           ret |-> c.ret, exc |-> c.exc,
                           pre |-> fs, post |-> c.post]>>
    /\ UNCHANGED <<run, azely>>

NextCalc == Calc

SpecCalc == InitCalc /\ [][NextCalc]_vars

-----------------------------------------------------------------------------
(* What the claims speak of                                                *)

\* The document a call read or left in the file it resolved.
DocAt(files, path) == files[The(path)].doc

ByName == {"get_object_by_name", "get_location_by_name"}

\* The call reached the file of a cached function.
Reached(c) == c.func # "" /\ c.path # {}

\* The item the call found for its key when it read the file.
Found(c) == Get(DocAt(c.pre, c.path), c.key)

\* The call ran func for (path, key), so it may have stored a new item.
Wrote(c, path, key) == c.path = path /\ c.key = key /\ c.ncompute = 1

\* The field dictionaries that are the asdict of some record.
AngleTexts ==
    HourAngles \cup DegAngles
    \cup {"187d16m40s", "250d44m42s", "139.69", "-67.7531", "35.68", "NA"}

Names == {Sun, sun, M87, Tokyo, HERE, Here, Empty}

ObjectRecords ==
    UNION { Object(d).val :
              d \in [name : Names, longitude : AngleTexts, latitude : AngleTexts,
                     frame : {FRAME, SOLAR_FRAME}] }

LocationRecords ==
    UNION { Location(d).val :
              d \in [name : Names, longitude : AngleTexts, latitude : AngleTexts,
                     altitude : {"0.0 m", "0"}] }

Records(func) ==
    IF func \in {"get_object_solar", "get_object_by_name"}
    THEN ObjectRecords ELSE LocationRecords

-----------------------------------------------------------------------------
\* C1: when a call without update finds no item for its key and succeeds, the
\* next call of the same function for the same key and file, again without
\* update, returns an equal record, and func ran once in the two calls: in
\* the first.
FirstThenAgain(a, b) ==
    /\ Reached(a) /\ a.func = b.func /\ a.path = b.path /\ a.key = b.key
    /\ ~a.update /\ ~b.update
    /\ ~a.hit /\ a.exc = ""

C2_ComputeFailureLeavesFile ==
    \A i \in 1..Len(hist) :
        LET c == hist[i] IN
        c.cexc # "" => (c.exc = c.cexc /\ c.post = c.pre)

C2_Witness ==
    \E i \in 1..Len(hist) :
        LET c == hist[i] IN
        /\ c.cexc # "" /\ c.update /\ c.hit
        /\ c.exc = c.cexc /\ c.post = c.pre

\* C3: a call runs func at most once, and only when its key has no item or
\* an update is asked for; when the key has an item and no update is asked
\* for, the call asks no service and returns the item, deserialized.
C3_ComputeGating ==
    \A i \in 1..Len(hist) :
        LET c == hist[i] IN
        /\ c.ncompute <= 1
        /\ c.ncompute = 1 => (~c.hit \/ c.update)
        /\ (Reached(c) /\ c.hit /\ ~c.update) =>
              /\ c.ncompute = 0 /\ c.network = {} /\ c.computed = {}
              /\ c.ret = DataClass(c.func, Found(c)).val
              /\ c.exc = DataClass(c.func, Found(c)).exc

C3_Witness ==
    \E i \in 1..Len(hist) :
        LET c == hist[i] IN
        /\ Reached(c) /\ c.hit /\ ~c.update
        /\ c.ncompute = 0 /\ c.exc = "" /\ c.ret # {}
        /\ c.func = "get_object_by_name"

\* C4: a call with update for a key that has an item, in which func returns,
\* stores func's record in place of the item and returns it; and a later
\* call without update for that key returns the same record, as long as no
\* call between the two ran func for the key.
C4_Overwrite ==
    \A i \in 1..Len(hist) :
        LET a == hist[i] IN
        (Reached(a) /\ a.update /\ a.hit /\ a.computed # {}) =>
          /\ a.exc = "" /\ a.ret = a.computed
          /\ Has(DocAt(a.post, a.path), a.key)
          /\ Get(DocAt(a.post, a.path), a.key) = asdict(The(a.computed))
          /\ \A j \in (i + 1)..Len(hist) :
                LET b == hist[j] IN
                ( /\ b.func = a.func /\ b.path = a.path /\ b.key = a.key
                  /\ ~b.update
                  /\ \A k \in (i + 1)..(j - 1) : ~Wrote(hist[k], a.path, a.key) )
                => (b.exc = "" /\ b.ret = a.ret)

C4_Witness ==
    \E i \in 1..Len(hist), j \in 1..Len(hist) :
        LET a == hist[i]
            b == hist[j]
        IN  /\ i < j
            /\ Reached(a) /\ a.update /\ a.hit /\ a.computed # {}
            /\ DataClass(a.func, Found(a)).val # a.computed
            /\ DataClass(a.func, Found(a)).exc = ""
            /\ b.func = a.func /\ b.path = a.path /\ b.key = a.key /\ ~b.update
            /\ b.ret = a.computed

\* C6: get_object of a key whose lower case is a solar body calls
\* get_object_solar and asks no service, with or without a source and an
\* update; with an update, the record returned has the frame "solar".
C6_SolarDispatch ==
    \A i \in 1..Len(hist) :
        LET c == hist[i] IN
        (c.fn = "get_object" /\ c.func # "" /\ Lower(c.key) \in SOLAR_OBJECTS) =>
          /\ c.func = "get_object_solar"
          /\ c.network = {}
          /\ (c.update /\ c.exc = "") =>
                (c.ret # {} /\ \A r \in c.ret : r.frame = SOLAR_FRAME)

C6_Witness ==
    \E i \in 1..Len(hist) :
        LET c == hist[i] IN
        /\ c.fn = "get_object" /\ c.key = Sun /\ c.source # Empty /\ c.update
        /\ c.func = "get_object_solar" /\ c.network = {}
        /\ c.exc = "" /\ \A r \in c.ret : r.frame = SOLAR_FRAME

\* C7: a call whose query names a source, for a key that is neither a solar
\* body nor "here", asks no service: it returns the item of the key as it is
\* in the file, or raises NotFoundError when the key has none.
C7_ExplicitSourceNoNetwork ==
    \A i \in 1..Len(hist) :
        LET c == hist[i] IN
        (Reached(c) /\ c.source # Empty /\ c.func \in ByName) =>
          /\ c.network = {}
          /\ c.hit => c.ret = {Found(c)}
          /\ ~c.hit => c.exc = "NotFoundError"

\* C8: a call whose query names a source leaves every file as it was.
C8_UserSourceNeverWritten ==
    \A i \in 1..Len(hist) :
        LET c == hist[i] IN
        c.source # Empty => c.post = c.pre

-----------------------------------------------------------------------------
(* What the claims about parse speak of                                    *)

\* A key without ":" and without "!".
PlainKey(k) == \A i \in 1..Len(k) : k[i] \notin {":", "!"}

AllBlank(k) == \A i \in 1..Len(k) : IsSpace(k[i])

OnlyBangs(k) == k # << >> /\ \A i \in 1..Len(k) : k[i] = "!"

NoEdgeBlank(k) == k # << >> /\ ~IsSpace(k[1]) /\ ~IsSpace(k[Len(k)])

\* q is k without the blanks k begins and ends with.
IsCoreOf(q, k) ==
    /\ q = << >> \/ NoEdgeBlank(q)
    /\ \E a \in 0..Len(k) :
         /\ a + Len(q) <= Len(k)
         /\ SubSeq(k, a + 1, a + Len(q)) = q
         /\ \A y \in (1..a) \cup ((a + Len(q) + 1)..Len(k)) : IsSpace(k[y])

\* The strings "<name>:<k>" are made with these names.
SourceNames == {<<"u">>, <<"a", "u">>}

\* string is name, a colon and k.
IsSourced(string, name, k) == string = name \o Colon \o k

Suffixes(string) == { SubSeq(string, i, Len(string)) : i \in 1..(Len(string) + 1) }

\* The strings the expression matches, said without the expression: what is
\* left of the string when a final "!" and the blanks after it are taken
\* away is not empty, and either has no "!" or has a colon, not at its end,
\* with no "!" after it.
Body(string) ==
    LET r == RStrip(string) IN
    IF r # << >> /\ r[Len(r)] = "!" THEN SubSeq(r, 1, Len(r) - 1) ELSE string

Grammar(string) ==
    LET b == Body(string) IN
    /\ b # << >>
    /\ \/ \A y \in 1..Len(b) : b[y] # "!"
       \/ \E c \in 1..(Len(b) - 1) :
            b[c] = ":" /\ \A y \in (c + 1)..Len(b) : b[y] # "!"

\* C11 as stated: for every key k without ":" and "!" (and not empty),
\* parse(k) has key k, no source and force_update false.
C11_ParseRoundTripStated ==
    \A i \in 1..Len(hist) :
        LET c == hist[i] IN
        (c.fn = "parse" /\ PlainKey(c.string) /\ c.string # Empty) =>
          c.ok /\ c.query = c.string /\ c.source = Empty /\ ~c.update

\* C11: for every key k without ":" and "!" that is not empty, parse(k) has
\* no source, force_update false and the key k without the blanks k begins
\* and ends with; the key is k itself when k has no such blanks.
C11_ParseRoundTrip ==
    \A i \in 1..Len(hist) :
        LET c == hist[i] IN
        (c.fn = "parse" /\ PlainKey(c.string) /\ c.string # Empty) =>
          /\ c.ok /\ c.source = Empty /\ ~c.update
          /\ IsCoreOf(c.query, c.string)
          /\ NoEdgeBlank(c.string) => c.query = c.string

C11_Witness ==
    \E i \in 1..Len(hist) :
        /\ hist[i].fn = "parse" /\ hist[i].string = <<"a", " ", "u">>
        /\ hist[i].ok /\ hist[i].query = hist[i].string
        /\ hist[i].source = Empty /\ ~hist[i].update

\* C12 as stated: for every key k without ":" and "!" (and not empty), parse
\* of a source name, a colon and k has that source and the key k.
C12_SourceOverrideStated ==
    \A i \in 1..Len(hist), name \in SourceNames :
        LET c == hist[i] IN
        c.fn = "parse" =>
          \A k \in Suffixes(c.string) :
              (IsSourced(c.string, name, k) /\ PlainKey(k) /\ k # Empty) =>
                c.ok /\ c.source = name /\ c.query = k

\* C12: for every key k without ":" and "!" that is not empty, parse of a
\* source name, a colon and k has that source, force_update false and the
\* key k without the blanks k begins and ends with.
C12_SourceOverride ==
    \A i \in 1..Len(hist), name \in SourceNames :
        LET c == hist[i] IN
        c.fn = "parse" =>
          \A k \in Suffixes(c.string) :
              (IsSourced(c.string, name, k) /\ PlainKey(k) /\ k # Empty) =>
                /\ c.ok /\ c.source = name /\ ~c.update
                /\ IsCoreOf(c.query, k)
                /\ NoEdgeBlank(k) => c.query = k

C12_Witness ==
    \E i \in 1..Len(hist) :
        /\ hist[i].fn = "parse" /\ hist[i].string = <<"a", "u", ":", "a">>
        /\ hist[i].ok /\ hist[i].source = <<"a", "u">> /\ hist[i].query = <<"a">>

\* C13 as stated: for every key k without ":" and "!" (and not empty), parse
\* of k and "!" has force_update true and the key k.
C13_ForceUpdateStated ==
    \A i \in 1..Len(hist) :
        LET c == hist[i] IN
        c.fn = "parse" =>
          \A k \in {SubSeq(c.string, 1, Len(c.string) - 1)} :
              (c.string = k \o Bang /\ PlainKey(k) /\ k # Empty) =>
                c.ok /\ c.update /\ c.query = k

\* C13: for every key k without ":" and "!" that is not empty, parse of k
\* and "!" has force_update true, no source and the key k without the
\* blanks k begins and ends with.
C13_ForceUpdate ==
    \A i \in 1..Len(hist) :
        LET c == hist[i] IN
        c.fn = "parse" =>
          \A k \in {SubSeq(c.string, 1, Len(c.string) - 1)} :
              (c.string = k \o Bang /\ PlainKey(k) /\ k # Empty) =>
                /\ c.ok /\ c.update /\ c.source = Empty
                /\ IsCoreOf(c.query, k)
                /\ NoEdgeBlank(k) => c.query = k

C13_Witness ==
    \E i \in 1..Len(hist) :
        /\ hist[i].fn = "parse" /\ hist[i].string = <<"a", "u", "!">>
        /\ hist[i].ok /\ hist[i].update /\ hist[i].query = <<"a", "u">>

\* C14 as stated: a string that is nothing but "!", or that is empty once
\* its blanks are trimmed, makes parse raise ParseError, and parse returns no
\* ParsedQuery with an empty key.
C14_ParseFailureStated ==
    \A i \in 1..Len(hist) :
        LET c == hist[i] IN
        c.fn = "parse" =>
          /\ (OnlyBangs(c.string) \/ AllBlank(c.string)) => c.exc = "ParseError"
          /\ c.ok => c.query # Empty

\* C14: parse raises ParseError exactly for the strings the expression does
\* not match, the empty string and the strings that are nothing but "!"
\* among them; a string of one or more blanks is matched, and parse returns
\* a ParsedQuery with the empty key for it.
C14_ParseFailure ==
    \A i \in 1..Len(hist) :
        LET c == hist[i] IN
        c.fn = "parse" =>
          /\ c.ok <=> Grammar(c.string)
          /\ c.ok <=> c.exc = ""
          /\ ~c.ok <=> c.exc = "ParseError"
          /\ (c.string = Empty \/ OnlyBangs(c.string)) => ~c.ok
          /\ (c.string # Empty /\ AllBlank(c.string)) => c.ok /\ c.query = Empty
          /\ (c.ok /\ c.query = Empty) => IsSpace(Body(c.string)[Len(Body(c.string))])

C14_Witness ==
    \E i \in 1..Len(hist) :
        /\ hist[i].fn = "parse" /\ hist[i].string = <<"!", "!">>
        /\ ~hist[i].ok /\ hist[i].exc = "ParseError"

-----------------------------------------------------------------------------
\* C15: when the file a call names does not exist, the call makes an empty
\* file of it and goes on as on a miss; it does not fail for the missing
\* file.
C15_MissingSourceCreated ==
    \A i \in 1..Len(hist) :
        LET c == hist[i] IN
        (c.fn \in {"get_object", "get_location"} /\ c.func # "") =>
          /\ c.exc # "FileNotFoundError"
          /\ c.path # {} /\ exists(c.post, The(c.path))

\* The candidates of resolve(toml), in order.
Candidates(toml) ==
    << toml,
       [toml EXCEPT !.suffix = ".toml"],
       [toml EXCEPT !.suffix = ".toml", !.dir = "azely"] >>

\* What the order of the candidates gives for one call of resolve.
FirstExisting(c) ==
    LET cs   == Candidates(c.toml)
        E(n) == fs[cs[n]].exists
    IN  /\ E(1) => c.ret = {cs[1]}
        /\ (~E(1) /\ E(2)) => c.ret = {cs[2]}
        /\ (~E(1) /\ ~E(2) /\ E(3)) => c.ret = {cs[3]}
        /\ (E(1) \/ E(2) \/ E(3)) <=> c.exc = ""
        /\ ~(E(1) \/ E(2) \/ E(3)) <=> (c.exc = "FileNotFoundError" /\ c.ret = {})

\* Two calls of resolve, one for a name and one for the name with .toml.
BareAndSuffixed(a, b) ==
    /\ a.fn = "resolve" /\ b.fn = "resolve"
    /\ a.toml = PathOf(User) /\ b.toml = PathOf(User \o DotToml)

\* C16 as stated: resolve returns the first candidate that exists among the
\* path as given, the path with the suffix .toml and the file of that name
\* in the config directory, raises FileNotFoundError when none exists, and
\* so gives the same file for a name with and without the suffix.
C16_ResolveOrderStated ==
    /\ \A i \in 1..Len(hist) : hist[i].fn = "resolve" => FirstExisting(hist[i])
    /\ \A i, j \in 1..Len(hist) :
         BareAndSuffixed(hist[i], hist[j]) =>
            (hist[i].ret = hist[j].ret /\ hist[i].exc = hist[j].exc)

\* C16: resolve returns the first candidate that exists among the path as
\* given, the path with the suffix .toml and the file of that name in the
\* config directory, and raises FileNotFoundError when none exists; it gives
\* the same file for a name with and without the suffix when no file has the
\* name without the suffix, and else the file of that very name.
C16_ResolveOrder ==
    /\ \A i \in 1..Len(hist) : hist[i].fn = "resolve" => FirstExisting(hist[i])
    /\ \A i, j \in 1..Len(hist) :
         BareAndSuffixed(hist[i], hist[j]) =>
            IF fs[PathOf(User)].exists
            THEN hist[i].ret = {PathOf(User)}
            ELSE hist[i].ret = hist[j].ret /\ hist[i].exc = hist[j].exc

C16_Witness ==
    \E i, j \in 1..Len(hist) :
        /\ BareAndSuffixed(hist[i], hist[j])
        /\ ~fs[PathOf(User)].exists /\ ~fs[UserFile].exists
        /\ hist[i].ret = {InAzelyDir(UserFile)} /\ hist[j].ret = hist[i].ret

\* C17: when the file a call resolved is no TOML, the call raises, func is
\* not run, no service is asked and every file is as it was.
C17_CorruptSource ==
    \A i \in 1..Len(hist) :
        LET c == hist[i] IN
        (Reached(c) /\ ~c.pre[The(c.path)].valid) =>
          /\ c.exc # "" /\ c.ret = {}
          /\ c.ncompute = 0 /\ c.network = {} /\ c.computed = {}
          /\ c.post = c.pre

C17_Witness ==
    \E i \in 1..Len(hist) :
        LET c == hist[i] IN
        /\ Reached(c) /\ ~c.pre[The(c.path)].valid
        /\ c.update /\ c.source # Empty /\ c.func = "get_object_by_name"
        /\ c.exc = "tomlkit.ParseError" /\ c.post = c.pre

\* C19: in every file every key has at most one item, whatever calls were
\* made; a forced update of a key that has an item leaves the file with as
\* many items as it had.
C19_OneRecordPerKey ==
    /\ \A p \in DOMAIN fs :
         \A d, e \in fs[p].doc : d.key = e.key => d = e
    /\ \A i \in 1..Len(hist) :
         LET c == hist[i] IN
         (Reached(c) /\ c.hit /\ c.update /\ c.exc = "") =>
            /\ Cardinality(DocAt(c.post, c.path)) = Cardinality(DocAt(c.pre, c.path))
            /\ Get(DocAt(c.post, c.path), c.key) = The(c.computed)

C19_Witness ==
    \E i \in 1..Len(hist) :
        LET c == hist[i] IN
        /\ Reached(c) /\ c.hit /\ c.update /\ c.exc = ""
        /\ The(c.computed) # Found(c)
        /\ Cardinality({e \in DocAt(c.post, c.path) : e.key = c.key}) = 1

-----------------------------------------------------------------------------
\* C18: while one process makes a call and no other has begun, the file
\* always holds a whole TOML document, the one the call loaded or the one it
\* writes, also in the middle of the writing and when the call is
\* interrupted there.
C18_NoHalfWrittenFile ==
    \A p \in Procs :
        (run[p].pc \in {"loaded", "leaving", "writing", "flushing", "done"}
         /\ run[p].exc \in {"", "KeyboardInterrupt"}
         /\ \A q \in Procs \ {p} : run[q].pc = "idle") =>
          /\ fs[StepPath].valid
          /\ fs[StepPath].doc \in {run[p].read, run[p].doc}

\* The call of p has left the body of the with statement without raising.
PastCompute(p) ==
    /\ run[p].pc \in {"leaving", "writing", "flushing", "done"}
    /\ run[p].ncompute = 1 \/ run[p].exc = ""

\* C20: a call runs func at most once, and it runs func when the document it
\* loaded has no item for the key, whatever another process wrote to the
\* file since; so when two processes both loaded the file before either
\* wrote to it, func runs once in each, twice for the one key.
C20_DuplicateCompute ==
    /\ \A p \in Procs : run[p].ncompute <= 1
    /\ \A p \in Procs :
         (PastCompute(p) /\ run[p].exc = "") =>
            run[p].ncompute =
               (IF run[p].update \/ ~Has(run[p].read, run[p].query)
                THEN 1 ELSE 0)
    /\ (\A p \in Procs :
           PastCompute(p) /\ run[p].exc = "" /\ ~Has(run[p].read, run[p].query))
         => \A p \in Procs : run[p].ncompute = 1

C20_Witness ==
    /\ \A p \in Procs :
         /\ run[p].pc = "done" /\ run[p].exc = "" /\ ~run[p].update
         /\ run[p].query = StepQuery
         /\ ~Has(run[p].read, StepQuery) /\ run[p].ncompute = 1
    /\ Has(fs[StepPath].doc, StepQuery)

-----------------------------------------------------------------------------
\* C21: whatever goes wrong in the function a call runs (no connection, a
\* timeout, a name that is not found), the call raises AzelyError.
C21_UniformError ==
    \A i \in 1..Len(hist) :
        LET c == hist[i] IN
        (c.fn \in {"get_object", "get_location"} /\ c.ncompute = 1 /\ c.exc # "")
            => c.exc = "AzelyError"

C28_OtherKeysUntouched ==
    \A i \in 1..Len(hist) :
        LET c == hist[i] IN
        c.fn \in {"get_object", "get_location"} =>
          /\ \A p \in DOMAIN c.pre :
               \A e \in c.pre[p].doc : e.key # c.key => e \in c.post[p].doc
          /\ \A p \in DOMAIN c.post :
               \A e \in c.post[p].doc :
                  e.key # c.key => (c.pre[p].exists /\ e \in c.pre[p].doc)
          /\ Reached(c) => (c.hit <=> \E e \in DocAt(c.pre, c.path) : e.key = c.key)

C28_Witness ==
    \E i \in 1..Len(hist) :
        LET c == hist[i] IN
        /\ Reached(c) /\ c.key = sun /\ ~c.hit /\ c.exc = ""
        /\ Has(DocAt(c.pre, c.path), Sun)
        /\ Has(DocAt(c.post, c.path), sun)
        /\ Get(DocAt(c.post, c.path), Sun) = Get(DocAt(c.pre, c.path), Sun)

-----------------------------------------------------------------------------
\* The call of p ended by returning, its document written to the file.
Completed(p) == run[p].pc = "done" /\ run[p].exc = ""

\* No process is in the middle of writing the file or was interrupted.
Settled ==
    \A p \in Procs :
        run[p].pc \notin {"writing", "flushing"} /\ run[p].exc # "KeyboardInterrupt"

\* The file holds the item the call of p wrote for its key, or the item a
\* call for the same key wrote over it.
Kept(p) ==
    LET k == run[p].query IN
    /\ fs[StepPath].valid
    /\ Has(fs[StepPath].doc, k)
    /\ \E q \in Procs :
          /\ Completed(q) /\ run[q].query = k
          /\ Get(fs[StepPath].doc, k) = Get(run[q].doc, k)

\* C30: when a call began after another had ended, the item the earlier one
\* wrote is in the file after the later one returned; an item a completed
\* call wrote is missing from the file only when a call for another key,
\* under way at the same time, loaded the file before the item was written
\* and wrote its copy back after.
C30_LostUpdate ==
    /\ \A p, q \in Procs :
         (Completed(p) /\ Completed(q) /\ p \in run[q].after) => Kept(p)
    /\ \A p \in Procs :
         (Settled /\ Completed(p) /\ ~Kept(p)) =>
            \E q \in Procs \ {p} :
               /\ Completed(q) /\ run[q].query # run[p].query
               /\ p \notin run[q].after /\ q \notin run[p].after
               /\ [key |-> run[p].query,
                   val |-> Get(run[p].doc, run[p].query)] \notin run[q].read
               /\ fs[StepPath].doc = run[q].doc

\* Both calls returned, for different keys, and the file lacks the item of
\* one of them.
C30_Witness ==
    \E p, q \in Procs :
        /\ Completed(p) /\ Completed(q) /\ run[p].query # run[q].query
        /\ run[p].ncompute = 1 /\ run[q].ncompute = 1
        /\ ~Has(fs[StepPath].doc, run[p].query)
        /\ Has(fs[StepPath].doc, run[q].query)

-----------------------------------------------------------------------------
\* C27: in the with-block of set_date(d) azely.DATE is parse_date(d), until
\* the body sets the date itself; when a block is left, at its end or by an
\* exception, azely.DATE is what it was right before the set_date of that
\* block was called, and the exception goes on; so with every block left
\* and no set_date called outside a block, the date is the one of the start.
C27_SetDateRestores ==
    /\ \A n \in 1..Len(azely.blocks) :
         (n = Len(azely.blocks) /\ ~azely.blocks[n].dirty) =>
            azely.DATE = The(parse_date(azely.blocks[n].date_like).val)
    /\ \A i \in 1..Len(hist) :
         hist[i].fn = "__exit__" =>
            /\ hist[i].after = hist[i].before
            /\ \E j \in 1..(i - 1) :
                  /\ hist[j].fn = "with" /\ hist[j].exc = ""
                  /\ hist[j].depth = hist[i].depth - 1
                  /\ hist[j].date_like = hist[i].date_like
                  /\ hist[j].before = hist[i].after
    /\ (/\ azely.blocks = << >>
        /\ \A i \in 1..Len(hist) :
              hist[i].fn = "set_date" => (hist[i].depth > 0 \/ hist[i].exc # ""))
         => azely.DATE = Today

\* Two blocks, one in the other, for two dates; the inner one is left by an
\* exception, the outer one at its end.
C27_Witness ==
    /\ Len(hist) = 4
    /\ hist[1].fn = "with" /\ hist[2].fn = "with"
    /\ hist[1].after # Today /\ hist[2].after \notin {Today, hist[1].after}
    /\ hist[3].fn = "__exit__" /\ hist[3].exc = "Exception"
    /\ hist[3].after = hist[1].after
    /\ hist[4].fn = "__exit__" /\ hist[4].exc = ""
    /\ azely.DATE = Today /\ azely.blocks = << >>

-----------------------------------------------------------------------------
\* The lookup found the location in the dict, got with a query, and its
\* timezone items are of another date than the one asked for.
Outdated(c) ==
    /\ c.fn = "Locations.__getitem__" /\ c.cached # {}
    /\ parse_date(c.date_like).exc = ""
    /\ "query" \in DOMAIN The(c.cached)
    /\ "timezone_date" \in DOMAIN The(c.cached)
    /\ The(c.cached).timezone_date # The(parse_date(c.date_like).val)

\* C26: a lookup of a location that is cached with a query and with
\* timezone items of another date asks the services; when the request
\* fails, however, the lookup returns the cached location as it was and
\* the file keeps it; when it succeeds only the timezone items change; a
\* lookup for the date of the cached items, or of a location with no
\* query, asks nothing.
C26_OfflineFallback ==
    \A i \in 1..Len(hist) :
        LET c == hist[i] IN
        (c.fn = "Locations.__getitem__" /\ c.cached # {}) =>
          LET old == The(c.cached) IN
          /\ Outdated(c) =>
               /\ c.requests # << >>
               /\ c.exc = ""
               /\ c.rexc # "" =>
                    (c.ret = {old} /\ Get(c.post[KNOWN_LOCS].doc, c.name) = old)
               /\ c.rexc = "" =>
                    /\ \A k \in DOMAIN old \ TzKeys : The(c.ret)[k] = old[k]
                    /\ The(c.ret).timezone_date =
                          The(parse_date(c.date_like).val)
          /\ ~Outdated(c) => c.requests = << >>

C26_Witness ==
    \E i \in 1..Len(hist) :
        LET c == hist[i] IN
        /\ Outdated(c) /\ c.rexc = "socket.timeout"
        /\ c.requests = <<"geocode", "timezone">>
        /\ c.exc = "" /\ c.ret = c.cached

-----------------------------------------------------------------------------
-----------------------------------------------------------------------------
\* C23: whichever of the three forms each argument of calc is given in,
\* when no query fails calc returns, and the result carries a record for
\* the location, the object and the time.
C23_AllFormsResolved ==
    \A i \in 1..Len(hist) :
        LET c == hist[i] IN
        (c.fn = "calc" /\ \A n \in 1..Len(c.calls) : c.calls[n].exc = "") =>
          /\ c.exc = ""
          /\ c.ret # {}

\* The option the call of calc gave for a kind: the one value, the entry of
\* the dictionary, or the default when the dictionary has none.
OptionOf(option, kind, default) ==
    IF ~option.isdict THEN option.val
    ELSE IF \E e \in option.items : e.key = kind
    THEN (CHOOSE e \in option.items : e.key = kind).val
    ELSE default

\* C24: every get_location, get_object and get_time that calc calls gets
\* the append, overwrite and source given for its kind: the single value,
\* the kind's entry of the dictionary, or the default (TRUE, FALSE, the
\* cache file) when the dictionary has no entry for the kind.
C24_OptionsPerKind ==
    \A i \in 1..Len(hist) :
        LET c == hist[i] IN
        c.fn = "calc" =>
          \A n \in 1..Len(c.calls) :
             LET g == c.calls[n] IN
             /\ g.append = OptionOf(c.append, g.kind, TRUE)
             /\ g.overwrite = OptionOf(c.overwrite, g.kind, FALSE)
             /\ g.source = OptionOf(c.source, g.kind, AZELY_CACHE)

\* Three queries, with dictionaries that have an entry for one kind only.
C24_Witness ==
    \E i \in 1..Len(hist) :
        LET c == hist[i] IN
        /\ c.fn = "calc" /\ Len(c.calls) = 3 /\ c.exc = ""
        /\ c.append = Dict({[key |-> "object", val |-> FALSE]})
        /\ c.source = Dict({[key |-> "object", val |-> UserFile]})
        /\ c.calls[1].kind = "location" /\ c.calls[1].append
        /\ c.calls[1].source = AZELY_CACHE
        /\ c.calls[2].kind = "object" /\ ~c.calls[2].append
        /\ c.calls[2].source = UserFile
        /\ c.calls[3].kind = "time" /\ c.calls[3].append

=============================================================================
